---- MODULE Spec2Model ----
(***************************************************************************)
(* Model of src-tauri/src/main.rs: the set_window_opacity command, the     *)
(* set_window_corner helper and the setup hook of main, acting on one      *)
(* operating-system window (extended style flags, layered alpha, corner    *)
(* preference).                                                            *)
(*                                                                         *)
(* f64 values are modelled as NaN, +inf, -inf or a finite rational n/Scale *)
(* on a decimal grid; the f64 rounding of the product opacity * 255.0 is   *)
(* abstracted to exact arithmetic on that grid.                            *)
(***************************************************************************)
EXTENDS Integers, Sequences, FiniteSets, TLC

\* ------------------------------------------------------------------ bounds
\* grid steps per tenth: finite opacities are multiples of 1/(10*Grain)
Grain == 2
\* how many grid steps the finite inputs extend below 0.0 and above 1.0
Over == 1
\* number of set_window_opacity invocations explored
MaxCalls == 2

Scale == 10 * Grain

\* --------------------------------------------------------- platform values
WS_EX_LAYERED == 524288
DWMWCP_DEFAULT == 0
DWMWCP_DONOTROUND == 1
DWMWCP_ROUND == 2
DWMWCP_ROUNDSMALL == 3

\* extended styles the window may carry when the program first reads them:
\* none, WINDOWEDGE, WINDOWEDGE|APPWINDOW, WINDOWEDGE|LAYERED
InitExStyles == {0, 256, 262400, 524544}

\* diagnostics of a failed window.hwnd() and of a rejected platform call
ResolutionErrors == {"HandleUnavailable", "WindowDestroyed"}
PlatformErrors == {"E_INVALIDARG", "E_ACCESSDENIED"}

\* ------------------------------------------------------------ f64 values
Fin(n) == [k |-> "fin", n |-> n]
NaN == [k |-> "nan", n |-> 0]
PosInf == [k |-> "inf", n |-> 1]
NegInf == [k |-> "inf", n |-> -1]

OpacityInputs == {Fin(n) : n \in (0 - Over)..(Scale + Over)} \cup {NaN, PosInf, NegInf}

\* a < b on f64: false whenever an operand is NaN
Lt(a, b) ==
  IF a.k = "nan" \/ b.k = "nan" THEN FALSE
  ELSE IF a.k = "inf" THEN a.n < 0 /\ ~(b.k = "inf" /\ b.n < 0)
  ELSE IF b.k = "inf" THEN b.n > 0
  ELSE a.n < b.n

ClampNoFloor(x, lo, hi) ==
  IF Lt(hi, x) THEN hi ELSE x

\* f64::clamp: x < min gives min, x > max gives max, anything else (NaN too) is kept
Clamp(x, lo, hi) ==
  LET x1 == IF Lt(x, lo) THEN lo ELSE x
  IN IF Lt(hi, x1) THEN hi ELSE x1

\* x * 255.0 (a finite result is a numerator over Scale)
Mul255(x) ==
  IF x.k = "fin" THEN Fin(255 * x.n) ELSE x

AsU8Rounded(x) ==
  IF x.k = "nan" THEN 0
  ELSE IF x.k = "inf" THEN (IF x.n > 0 THEN 255 ELSE 0)
  ELSE IF x.n < 0 THEN 0
  ELSE IF (2 * x.n + Scale) \div (2 * Scale) > 255 THEN 255
  ELSE (2 * x.n + Scale) \div (2 * Scale)

\* `as u8`: truncates toward zero, saturates at 0 and 255, NaN becomes 0
AsU8(x) ==
  IF x.k = "nan" THEN 0
  ELSE IF x.k = "inf" THEN (IF x.n > 0 THEN 255 ELSE 0)
  ELSE IF x.n < 0 THEN 0
  ELSE IF x.n \div Scale > 255 THEN 255
  ELSE x.n \div Scale

\* let alpha = (opacity.clamp(0.1, 1.0) * 255.0) as u8
AlphaOf(opacity) == AsU8(Mul255(Clamp(opacity, Fin(Scale \div 10), Fin(Scale))))

\* ----------------------------------------------------------- style flags
RECURSIVE BitOr(_, _)
BitOr(a, b) ==
  IF a = 0 THEN b
  ELSE IF b = 0 THEN a
  ELSE (IF a % 2 = 1 \/ b % 2 = 1 THEN 1 ELSE 0) + 2 * BitOr(a \div 2, b \div 2)

StyleUnchanged(ex_style) == ex_style

StyleLayeredOnly(ex_style) == WS_EX_LAYERED

\* the value written back: ex_style | WS_EX_LAYERED.0 as i32
NewExStyle(ex_style) == BitOr(ex_style, WS_EX_LAYERED)

\* --------------------------------------------------------------- results
Ok == [kind |-> "Ok", prefix |-> "", cause |-> ""]
Err(prefix, cause) == [kind |-> "Err", prefix |-> prefix, cause |-> cause]
Panic == [kind |-> "panic", prefix |-> "unwrap on None", cause |-> ""]
NoResult == [kind |-> "none", prefix |-> "", cause |-> ""]

HwndErrOpaque(e) == Err("", "unknown")

\* window.hwnd().map_err(|e| e.to_string())?
HwndErr(e) == Err("", e)

OpacityResultSwallowed(r) == Ok

\* SetLayeredWindowAttributes(..).map_err(|e| format!("Failed to set window opacity: {:?}", e))?; Ok(())
OpacityResult(r) ==
  IF r = "ok" THEN Ok ELSE Err("Failed to set window opacity: ", r)

\* DwmSetWindowAttribute(..).map_err(|e| format!("Failed to set window corner:  {:?}", e))?; Ok(())
CornerResult(r) ==
  IF r = "ok" THEN Ok ELSE Err("Failed to set window corner:  ", r)

corner_preference_small == DWMWCP_ROUNDSMALL

\* let corner_preference = DWMWCP_ROUND
corner_preference == DWMWCP_ROUND

\* -------------------------------------------------------------- the state
VARIABLES
  target_os,       \* the build target: "windows" or "other"
  phase,           \* "starting", "running" or "aborted"
  exStyle,         \* the window's extended style flags (GWL_EXSTYLE)
  alpha,           \* the window's layered alpha
  corner,          \* the window's corner preference attribute
  result,          \* what the last invocation returned
  calls,           \* the platform calls made by the last invocation, in order
  cornerRequests,  \* every value passed to DwmSetWindowAttribute so far
  last,            \* the last invocation: operation, inputs, style read
  nCalls           \* set_window_opacity invocations so far

vars == <<target_os, phase, exStyle, alpha, corner, result, calls, cornerRequests, last, nCalls>>

NoCall == [op |-> "none", opacity |-> NaN, hwnd |-> "unused", native |-> "unused", exBefore |-> 0]

Init ==
  /\ target_os \in {"windows", "other"}
  /\ phase = "starting"
  /\ exStyle \in InitExStyles
  /\ alpha = 255
  /\ corner = DWMWCP_DEFAULT
  /\ result = NoResult
  /\ calls = <<>>
  /\ cornerRequests = <<>>
  /\ last = NoCall
  /\ nCalls = 0

GateAlwaysOn == TRUE

\* #[cfg(target_os = "windows")] around the body of set_window_opacity
OpacityGate == target_os = "windows"

\* #[cfg(target_os = "windows")] around the set_window_corner call in setup
CornerGate == target_os = "windows"

\* ------------------------------------------------------ set_window_opacity
SetWindowOpacity(opacity, h, a) ==
  /\ phase = "running"
  /\ nCalls < MaxCalls
  /\ nCalls' = nCalls + 1
  /\ UNCHANGED <<target_os, phase, corner, cornerRequests>>
  /\ IF ~OpacityGate
     THEN /\ result' = Ok
          /\ calls' = <<>>
          /\ last' = [op |-> "set_window_opacity", opacity |-> opacity,
                      hwnd |-> "unused", native |-> "unused", exBefore |-> exStyle]
          /\ UNCHANGED <<exStyle, alpha>>
     ELSE IF h # "ok"
     THEN /\ result' = HwndErr(h)
          /\ calls' = << <<"hwnd", 0>> >>
          /\ last' = [op |-> "set_window_opacity", opacity |-> opacity,
                      hwnd |-> h, native |-> "unused", exBefore |-> exStyle]
          /\ UNCHANGED <<exStyle, alpha>>
     ELSE LET ex_style == exStyle
              byte == AlphaOf(opacity)
          IN /\ exStyle' = NewExStyle(ex_style)
             /\ calls' = << <<"hwnd", 0>>,
                            <<"GetWindowLongW", 0>>,
                            <<"SetWindowLongW", NewExStyle(ex_style)>>,
                            <<"SetLayeredWindowAttributes", byte>> >>
             /\ alpha' = IF a = "ok" THEN byte ELSE alpha
             /\ result' = OpacityResult(a)
             /\ last' = [op |-> "set_window_opacity", opacity |-> opacity,
                         hwnd |-> h, native |-> a, exBefore |-> ex_style]

\* ------------------------------------------------------- set_window_corner
\* the effect of one set_window_corner(&window) call with handle outcome h
\* and DwmSetWindowAttribute outcome d
CornerCall(h, d) ==
  IF h # "ok"
  THEN [result |-> HwndErr(h), calls |-> << <<"hwnd", 0>> >>,
        requests |-> <<>>, corner |-> corner]
  ELSE [result |-> CornerResult(d),
        calls |-> << <<"hwnd", 0>>, <<"DwmSetWindowAttribute", corner_preference>> >>,
        requests |-> <<corner_preference>>,
        corner |-> IF d = "ok" THEN corner_preference ELSE corner]

PhaseIgnoringError(r) == "running"

\* the shell starts running only when the setup hook returned Ok
PhaseAfterSetup(r) == IF r.kind = "Ok" THEN "running" ELSE "aborted"

\* ---------------------------------------------------------- the setup hook
Setup(mainExists, h, d) ==
  /\ phase = "starting"
  /\ UNCHANGED <<target_os, exStyle, alpha, nCalls>>
  /\ IF ~mainExists
     THEN /\ result' = Panic
          /\ calls' = << <<"get_webview_window", 0>> >>
          /\ phase' = "aborted"
          /\ last' = [op |-> "setup", opacity |-> NaN, hwnd |-> "unused",
                      native |-> "unused", exBefore |-> exStyle]
          /\ UNCHANGED <<corner, cornerRequests>>
     ELSE IF ~CornerGate
     THEN /\ result' = Ok
          /\ calls' = << <<"get_webview_window", 1>> >>
          /\ phase' = PhaseAfterSetup(Ok)
          /\ last' = [op |-> "setup", opacity |-> NaN, hwnd |-> "unused",
                      native |-> "unused", exBefore |-> exStyle]
          /\ UNCHANGED <<corner, cornerRequests>>
     ELSE LET c == CornerCall(h, d)
          IN /\ result' = c.result
             /\ calls' = << <<"get_webview_window", 1>> >> \o c.calls
             /\ cornerRequests' = cornerRequests \o c.requests
             /\ corner' = c.corner
             /\ phase' = PhaseAfterSetup(c.result)
             /\ last' = [op |-> "setup", opacity |-> NaN, hwnd |-> h,
                         native |-> IF h = "ok" THEN d ELSE "unused",
                         exBefore |-> exStyle]

HwndOutcomes == {"ok"} \cup ResolutionErrors
NativeOutcomes == {"ok"} \cup PlatformErrors

DoSetup == \E m \in BOOLEAN, h \in HwndOutcomes, d \in NativeOutcomes : Setup(m, h, d)

DoSetWindowOpacity ==
  \E o \in OpacityInputs, h \in HwndOutcomes, a \in NativeOutcomes : SetWindowOpacity(o, h, a)

Next == DoSetup \/ DoSetWindowOpacity

Spec == Init /\ [][Next]_vars

\* ------------------------------------------------- reading the last call
\* the last invocation was set_window_opacity on the supported platform and
\* window.hwnd() yielded a handle
OpacityResolved ==
  target_os = "windows" /\ last.op = "set_window_opacity" /\ last.hwnd = "ok"

\* the byte handed to SetLayeredWindowAttributes by the last invocation
PassedAlpha == calls[Len(calls)][2]

AlphaCallMade ==
  Len(calls) > 0 /\ calls[Len(calls)][1] = "SetLayeredWindowAttributes"

IsLayered(v) == (v \div WS_EX_LAYERED) % 2 = 1

\* the style flags with the layered bit masked out
OtherBits(v) == IF IsLayered(v) THEN v - WS_EX_LAYERED ELSE v

NativeCallNames ==
  {"GetWindowLongW", "SetWindowLongW", "SetLayeredWindowAttributes", "DwmSetWindowAttribute"}

BelowFloor(x) == (x.k = "fin" /\ 10 * x.n < Scale) \/ (x.k = "inf" /\ x.n < 0)
AboveCeiling(x) == (x.k = "fin" /\ x.n > Scale) \/ (x.k = "inf" /\ x.n > 0)
InRange(x) == x.k = "fin" /\ 10 * x.n >= Scale /\ x.n <= Scale

\* ------------------------------------------------------------------ claims

\* C1: on the supported platform, when the handle resolves, every opacity
\* below 0.1 hands byte 25 to the alpha-setting call and every opacity above
\* 1.0 hands it byte 255.
C1_OutOfRangePulledToBoundary ==
  OpacityResolved =>
    /\ AlphaCallMade
    /\ BelowFloor(last.opacity) => PassedAlpha = 25
    /\ AboveCeiling(last.opacity) => PassedAlpha = 255

C1_Witness ==
  /\ OpacityResolved
  /\ BelowFloor(last.opacity)
  /\ last.native = "ok"
  /\ alpha = 25

\* C2: for every opacity x in [0.1, 1.0] the byte applied is 255*x truncated
\* toward zero; opacity 0.5 applies 127.
C2_InRangeTruncates ==
  (OpacityResolved /\ InRange(last.opacity)) =>
    /\ AlphaCallMade
    /\ PassedAlpha = (255 * last.opacity.n) \div Scale
    /\ (2 * last.opacity.n = Scale) => PassedAlpha = 127
    /\ (last.native = "ok") => alpha = PassedAlpha

C2_Witness ==
  /\ OpacityResolved
  /\ 2 * last.opacity.n = Scale
  /\ last.opacity.k = "fin"
  /\ last.native = "ok"
  /\ alpha = 127

\* C3: after a set_window_opacity call that resolved the handle the layered
\* style bit is set, whether or not it was set before, and once the bit is
\* set no later step clears it.
C3_LayeredSetAndKept ==
  /\ [](OpacityResolved => IsLayered(exStyle))
  /\ [][IsLayered(exStyle) => IsLayered(exStyle')]_vars

C3_Witness ==
  /\ OpacityResolved
  /\ nCalls > 1
  /\ IsLayered(last.exBefore)
  /\ last.exBefore \notin InitExStyles
  /\ IsLayered(exStyle)

\* C4: on an unsupported platform every set_window_opacity invocation returns
\* Ok, makes no platform call at all and leaves the window as it was.
C4_UnsupportedIsNoOp ==
  [][(target_os = "other" /\ last'.op = "set_window_opacity") =>
       /\ result' = Ok
       /\ calls' = <<>>
       /\ exStyle' = exStyle
       /\ alpha' = alpha
       /\ corner' = corner
       /\ cornerRequests' = cornerRequests]_vars

C4_Witness ==
  /\ target_os = "other"
  /\ last.op = "set_window_opacity"
  /\ last.opacity = Fin(Scale \div 2)
  /\ result = Ok
  /\ nCalls > 1

\* C5: when window.hwnd() fails, the invocation (set_window_opacity or
\* set_window_corner) returns an error whose message contains the resolution
\* error, makes no platform call after the failed resolution and leaves the
\* window's style, alpha and corner preference unchanged.
C5_UnresolvedHandleFails ==
  [][(last'.hwnd \in ResolutionErrors) =>
       /\ result'.kind = "Err"
       /\ result'.cause = last'.hwnd
       /\ \A i \in 1..Len(calls') : calls'[i][1] \notin NativeCallNames
       /\ calls'[Len(calls')][1] = "hwnd"
       /\ exStyle' = exStyle
       /\ alpha' = alpha
       /\ corner' = corner
       /\ cornerRequests' = cornerRequests]_vars

C5_Witness ==
  /\ last.op = "set_window_opacity"
  /\ last.hwnd \in ResolutionErrors
  /\ result.kind = "Err"
  /\ result.cause = last.hwnd

\* C6: every DwmSetWindowAttribute call requests the rounded corner
\* preference; default, square and small-rounded are never requested.
C6_OnlyRoundedRequested ==
  /\ \A i \in 1..Len(cornerRequests) :
       /\ cornerRequests[i] = DWMWCP_ROUND
       /\ cornerRequests[i] \notin {DWMWCP_DEFAULT, DWMWCP_DONOTROUND, DWMWCP_ROUNDSMALL}
  /\ \A i \in 1..Len(calls) :
       calls[i][1] = "DwmSetWindowAttribute" => calls[i][2] = DWMWCP_ROUND
  /\ corner \in {DWMWCP_DEFAULT, DWMWCP_ROUND}

C6_Witness ==
  /\ Len(cornerRequests) = 1
  /\ cornerRequests[1] = DWMWCP_ROUND
  /\ corner = DWMWCP_ROUND

\* C7: on the supported platform the setup hook calls the corner setter once,
\* right after obtaining the main window; a failure of the setter is the
\* hook's error and aborts startup; the application runs only after that one
\* call succeeded, and the setter is not called again.
C7_CornerOnceAtStartup ==
  /\ [](target_os = "windows" =>
          /\ Len(cornerRequests) <= 1
          /\ (phase = "running") =>
               (Len(cornerRequests) = 1 /\ corner = DWMWCP_ROUND)
          /\ (last.op = "setup" /\ Len(calls) > 1) =>
               /\ calls[1] = <<"get_webview_window", 1>>
               /\ calls[2][1] = "hwnd"
               /\ Cardinality({i \in 1..Len(calls) : calls[i][1] = "hwnd"}) = 1
          /\ (last.op = "setup" /\ (last.hwnd \in ResolutionErrors \/ last.native \in PlatformErrors)) =>
               (result.kind = "Err" /\ phase = "aborted"))
  /\ [][(target_os = "windows" /\ phase # "starting") =>
          (cornerRequests' = cornerRequests /\ corner' = corner)]_vars

C7_Witness ==
  /\ target_os = "windows"
  /\ phase = "running"
  /\ nCalls > 0
  /\ Len(cornerRequests) = 1
  /\ corner = DWMWCP_ROUND

\* C8: when SetLayeredWindowAttributes is rejected, set_window_opacity
\* returns an error wrapping the platform diagnostic; the application keeps
\* running, further set_window_opacity calls remain possible, and the only
\* change to the window is the layered flag written earlier in the call.
C8_AlphaRejectionSurfaced ==
  /\ [][(last'.op = "set_window_opacity" /\ last'.native \in PlatformErrors) =>
          /\ result'.kind = "Err"
          /\ result'.prefix = "Failed to set window opacity: "
          /\ result'.cause = last'.native
          /\ phase' = "running"
          /\ alpha' = alpha
          /\ corner' = corner
          /\ IsLayered(exStyle')
          /\ exStyle' = IF IsLayered(exStyle) THEN exStyle ELSE exStyle + WS_EX_LAYERED]_vars
  /\ []((last.op = "set_window_opacity" /\ last.native \in PlatformErrors /\ nCalls < MaxCalls) =>
          ENABLED DoSetWindowOpacity)

C8_Witness ==
  /\ last.op = "set_window_opacity"
  /\ last.native \in PlatformErrors
  /\ result.kind = "Err"
  /\ result.cause = last.native
  /\ ~IsLayered(last.exBefore)
  /\ IsLayered(exStyle)
  /\ phase = "running"

\* C9: for every opacity input, NaN and the infinities included, the byte
\* handed to the alpha-setting call lies in 25..255, so the window's alpha is
\* never 0.
C9_AlphaNeverBelowFloor ==
  /\ OpacityResolved => (AlphaCallMade /\ PassedAlpha \in 25..255)
  /\ alpha \in 25..255

\* C10: set_window_opacity changes only the layered bit of the extended style
\* and the alpha, writing every other style bit back as read and leaving the
\* corner preference alone; the setup hook with set_window_corner changes
\* only the corner preference.
C10_Frame ==
  [][/\ (last'.op = "set_window_opacity") =>
          /\ corner' = corner
          /\ cornerRequests' = cornerRequests
          /\ OtherBits(exStyle') = OtherBits(exStyle)
          /\ \A j \in 1..Len(calls') :
               (calls'[j][1] = "SetWindowLongW") =>
                 OtherBits(calls'[j][2]) = OtherBits(exStyle)
     /\ (last'.op = "setup") => (exStyle' = exStyle /\ alpha' = alpha)]_vars

C10_Witness ==
  /\ OpacityResolved
  /\ last.exBefore # 0
  /\ ~IsLayered(last.exBefore)
  /\ exStyle = last.exBefore + WS_EX_LAYERED
  /\ corner = DWMWCP_ROUND

====
